---------------------------- MODULE Spec2Model ----------------------------
(***************************************************************************)
(* Twilio Media Stream -> Deepgram bridge (src/main.py).                   *)
(*                                                                         *)
(* One handler coroutine (handle_twilio_stream) per inbound connection,    *)
(* the registry active_streams, the Deepgram connection of each handler,   *)
(* the transcript callback that runs in Deepgram's thread and schedules    *)
(* on_deepgram_transcript onto the event loop, the HTTP deliveries of      *)
(* send_to_laravel, and the shutdown signal handler of main().             *)
(*                                                                         *)
(* A step of the model is the code a coroutine runs between two awaits     *)
(* (asyncio runs it without interleaving), one callback invocation, or one *)
(* run of the signal handler.                                              *)
(***************************************************************************)
EXTENDS Integers, Sequences, FiniteSets, TLC

\* ------------------------------------------------------------------ bounds

\* Inbound connections the server may accept over a run.
NumConns == 2

\* Shutdown signals (SIGTERM/SIGINT) delivered over a run.
MaxSignals == 1

\* 'media' messages one connection may receive.
MaxMedia == 2

\* Transcript callbacks Deepgram makes over a run of TranscriptSpec.
MaxTranscripts == 3

\* 'start' events one connection receives in ResolveSpec.
MaxStarts == 1

\* Transcript callbacks Deepgram makes over a run of DeliverySpec.
MaxDeliveries == 2

\* Messages one connection receives in its loop in StreamSpec.
MaxMessages == 2

\* Length of the longest input of mulaw_to_pcm in PcmSpec.
MaxBytes == 3

\* Transcript callbacks Deepgram makes over a run of ExtractSpec.
MaxExtracts == 2

\* Transcript callbacks Deepgram makes over a run of TimeSpec.
MaxStamps == 1

\* Transcript callbacks Deepgram makes over a run of PairSpec.
MaxPairEvents == 2

Conns == 1..NumConns

\* ------------------------------------------------------------------ values

\* Python's None / '' / missing key: every falsy value of an identifier.
None == "none"

\* Session identifiers carried by the inbound messages of Spec.
Ids == {"a", "b"}

IdOpt == Ids \cup {None}

\* Twilio call SIDs carried by the inbound messages.
CallSids == {"CA1"}

\* Diarization speaker tokens: str(speaker_id).
Tokens == {"A", "B", "C"}

\* Python's `x or y` on identifiers.
Or(x, y) == IF x # None THEN x ELSE y

\* dict[k] = v  and  dict.pop(k, None)  on a dict held as a function.
Put(f, k, v) == [x \in (DOMAIN f) \cup {k} |-> IF x = k THEN v ELSE f[x]]

Pop(f, k) == [x \in (DOMAIN f) \ {k} |-> f[x]]

EmptyMap == [x \in {} |-> None]

\* ---------------------------------------------------------------- messages

(***************************************************************************)
(* An inbound websocket message.  frame: "bytes" (binary), "badjson" (text *)
(* that is not JSON), "nonobject" (JSON that is not an object) or "json".  *)
(* For a JSON object: event, and the identity fields of lines 119-130,     *)
(* 143-144 and 304-323: p_* under 'params', d_* direct, pr_* under         *)
(* 'protocol', cp_* under start.customParameters, s_* under 'start'.       *)
(* shape = "bad": the container of the event ('params', 'start', 'media')  *)
(* is present and is not an object.  payload: of a 'media' event, "ok"     *)
(* (decodable base64), "bad" (not decodable) or "none" (missing/empty);    *)
(* bytes: what a decodable payload decodes to.                             *)
(***************************************************************************)
BlankMsg ==
    [frame |-> "json", event |-> "other", shape |-> "ok",
     p_csi |-> None, p_tw |-> None,
     d_csi |-> None, d_cs |-> None, d_tw |-> None, d_callsid |-> None,
     pr_csi |-> None, pr_tw |-> None,
     cp_csi |-> None, cp_cs |-> None,
     s_csi |-> None, s_cs |-> None, s_callsid |-> None,
     payload |-> "none", bytes |-> <<>>]

\* The query string of the request path (parse_qs drops blank values).
BlankQuery ==
    [callSessionId |-> None, callSession |-> None,
     twilioCallSid |-> None, callSid |-> None]

\* ------------------------------------------------------------------- state

VARIABLES
    hpc,            \* handler position: "idle", "initial", "loop", or how it ended
    sid,            \* call_session_id_ref[0]
    callSid,        \* the handler's local twilio_call_sid
    dg,             \* deepgram_connection: "none", "created", "started"
    finishCount,    \* calls of deepgram_connection.finish()
    dgSent,         \* the audio buffers sent to the Deepgram connection
    sentAfterFinish,\* audio buffers sent after finish() was called
    closeCode,      \* code of websocket.close() issued by the handler
    info,           \* connection_info (one dict object per handler)
    active_streams, \* registry: session id -> handler owning the dict
    cbCount,        \* transcript callbacks made for the connection
    arrivals,       \* per callback: the session id at the call, text or none
    loopQ,          \* event loop: scheduled on_deepgram_transcript coroutines
    inflight,       \* HTTP POSTs awaiting their response
    posted,         \* per connection: the POSTs issued, in issue order
    attrLog,        \* per connection_info: <<token, role>> of each attribution
    nsig,           \* shutdown signals handled
    mainDone,       \* main() has returned
    atSignal,       \* the handlers that were active at the last signal
    hist,           \* the identity sources a handler consumed (ResolveSpec)
    acked,          \* per connection and role: the POSTs answered with 201
    failures,       \* per connection: the POSTs that ended any other way
    afterFail,      \* per connection: the POSTs issued after one had failed
    mulaw_data,     \* the argument of a call of mulaw_to_pcm (PcmSpec)
    pcm_data,       \* what the call returned
    pcm_pc          \* the call: "idle", "returned" or "raised"

vars == <<hpc, sid, callSid, dg, finishCount, dgSent, sentAfterFinish,
          closeCode, info, active_streams, cbCount, arrivals, loopQ,
          inflight, posted, attrLog, nsig, mainDone, atSignal, hist,
          acked, failures, afterFail, mulaw_data, pcm_data, pcm_pc>>

connVars == <<hpc, sid, callSid, dg, finishCount, dgSent, sentAfterFinish,
              closeCode, info, active_streams>>

transcriptVars == <<cbCount, arrivals, loopQ, inflight, posted, attrLog>>

mainVars == <<nsig, mainDone, atSignal>>

\* What DeliverySpec records of the responses.
deliveryObs == <<acked, failures, afterFail>>

\* The call of mulaw_to_pcm that PcmSpec makes.
pcmVars == <<mulaw_data, pcm_data, pcm_pc>>

\* The variables that belong to one specification alone.
obsVars == <<hist, deliveryObs, pcmVars>>

\* The roles of the speaker_stats dict (line 659).
Roles == {"va", "prospect", "system"}

\* connection_info as built at lines 277-285.
NewInfo(tw) ==
    [exists |-> TRUE, twilio_call_sid |-> tw, media_count |-> 0,
     speaker_mapping |-> EmptyMap, next_speaker_index |-> 0,
     speaker_stats |-> EmptyMap]

NoInfo ==
    [exists |-> FALSE, twilio_call_sid |-> None, media_count |-> 0,
     speaker_mapping |-> EmptyMap, next_speaker_index |-> 0,
     speaker_stats |-> EmptyMap]

NoHist == [url |-> BlankQuery, first |-> <<>>, starts |-> <<>>, loop |-> <<>>]

ServerInit ==
    /\ hpc = [c \in Conns |-> "idle"]
    /\ sid = [c \in Conns |-> None]
    /\ callSid = [c \in Conns |-> None]
    /\ dg = [c \in Conns |-> "none"]
    /\ finishCount = [c \in Conns |-> 0]
    /\ dgSent = [c \in Conns |-> <<>>]
    /\ sentAfterFinish = [c \in Conns |-> 0]
    /\ closeCode = [c \in Conns |-> 0]
    /\ info = [c \in Conns |-> NoInfo]
    /\ active_streams = EmptyMap
    /\ cbCount = [c \in Conns |-> 0]
    /\ arrivals = [c \in Conns |-> <<>>]
    /\ loopQ = <<>>
    /\ inflight = {}
    /\ posted = [c \in Conns |-> <<>>]
    /\ attrLog = [c \in Conns |-> <<>>]
    /\ nsig = 0
    /\ mainDone = FALSE
    /\ atSignal = {}
    /\ hist = [c \in Conns |-> NoHist]
    /\ acked = [c \in Conns |-> [r \in Roles |-> 0]]
    /\ failures = [c \in Conns |-> 0]
    /\ afterFail = [c \in Conns |-> 0]

Init ==
    /\ ServerInit
    /\ mulaw_data = <<>>
    /\ pcm_data = <<>>
    /\ pcm_pc = "idle"


\* ------------------------------------------------------------- transcoder

\* Lines 390-423: mulaw_table, the PCM sample of each mu-law byte (Python
\* indexes it from 0, the tuple from 1).
mulaw_table ==
    <<-32124, -31100, -30076, -29052, -28028, -27004, -25980, -24956,
       -23932, -22908, -21884, -20860, -19836, -18812, -17788, -16764,
       -15996, -15484, -14972, -14460, -13948, -13436, -12924, -12412,
       -11900, -11388, -10876, -10364, -9852, -9340, -8828, -8316,
       -7932, -7676, -7420, -7164, -6908, -6652, -6396, -6140,
       -5884, -5628, -5372, -5116, -4860, -4604, -4348, -4092,
       -3900, -3772, -3644, -3516, -3388, -3260, -3132, -3004,
       -2876, -2748, -2620, -2492, -2364, -2236, -2108, -1980,
       -1884, -1820, -1756, -1692, -1628, -1564, -1500, -1436,
       -1372, -1308, -1244, -1180, -1116, -1052, -988, -924,
       -876, -844, -812, -780, -748, -716, -684, -652,
       -620, -588, -556, -524, -492, -460, -428, -396,
       -372, -356, -340, -324, -308, -292, -276, -260,
       -244, -228, -212, -196, -180, -164, -148, -132,
       -120, -112, -104, -96, -88, -80, -72, -64,
       -56, -48, -40, -32, -24, -16, -8, 0,
       32124, 31100, 30076, 29052, 28028, 27004, 25980, 24956,
       23932, 22908, 21884, 20860, 19836, 18812, 17788, 16764,
       15996, 15484, 14972, 14460, 13948, 13436, 12924, 12412,
       11900, 11388, 10876, 10364, 9852, 9340, 8828, 8316,
       7932, 7676, 7420, 7164, 6908, 6652, 6396, 6140,
       5884, 5628, 5372, 5116, 4860, 4604, 4348, 4092,
       3900, 3772, 3644, 3516, 3388, 3260, 3132, 3004,
       2876, 2748, 2620, 2492, 2364, 2236, 2108, 1980,
       1884, 1820, 1756, 1692, 1628, 1564, 1500, 1436,
       1372, 1308, 1244, 1180, 1116, 1052, 988, 924,
       876, 844, 812, 780, 748, 716, 684, 652,
       620, 588, 556, 524, 492, 460, 428, 396,
       372, 356, 340, 324, 308, 292, 276, 260,
       244, 228, 212, 196, 180, 164, 148, 132,
       120, 112, 104, 96, 88, 80, 72, 64,
       56, 48, 40, 32, 24, 16, 8, 0>>

\* Line 427: mulaw_table[byte] raises IndexError outside the table.
InTable(byte) == byte + 1 \in DOMAIN mulaw_table

\* Mutant of Sample: the sign bit of the byte is ignored.
SampleFolded(byte) == mulaw_table[(byte % 128) + 129]

\* Line 427: pcm_value = mulaw_table[byte].
Sample(byte) == mulaw_table[byte + 1]

\* Mutant of Fits: the conversion is unsigned.
FitsUnsigned(v) == 0 <= v /\ v <= 65535

\* Line 429: to_bytes(2, signed=True) raises OverflowError outside the
\* signed 16-bit range.
Fits(v) == -32768 <= v /\ v <= 32767

\* Mutant of ToBytes: the bytes are in big-endian order.
ToBytesBig(v) == <<(v % 65536) \div 256, (v % 65536) % 256>>

\* Line 429: the two bytes of v in two's complement, low byte first.
ToBytes(v) == <<(v % 65536) % 256, (v % 65536) \div 256>>

\* Lines 426-429: whether the loop raises on input data.
MulawRaises(data) ==
    \E i \in DOMAIN data : ~InTable(data[i]) \/ ~Fits(Sample(data[i]))

\* Lines 425-431: mulaw_to_pcm(data), for data on which it does not raise.
RECURSIVE MulawToPcm(_)
MulawToPcm(data) ==
    IF data = <<>> THEN <<>>
    ELSE ToBytes(Sample(Head(data))) \o MulawToPcm(Tail(data))

\* ---------------------------------------------------- identity resolution

\* Lines 84 and 88-89: the session id of the URL query.
UrlSid(q) == Or(q.callSessionId, q.callSession)

\* Lines 85 and 90-91: the call SID of the URL query.
UrlCallSid(q) == Or(q.twilioCallSid, q.callSid)

\* Lines 101-102 and 120-121: what makes the handling of the first message
\* raise (AttributeError), which only the outer `except Exception` catches.
\* `cur or params['params'].get(..)` evaluates the right side only when cur
\* is empty.
InitialRaises(cur, tw, m) ==
    \/ m.frame = "nonobject"
    \/ /\ m.frame = "json"
       /\ m.event = "connected"
       /\ m.shape = "bad"
       /\ (cur = None \/ tw = None)

\* Mutant of InitialSid: the direct fields of a 'connected' event are
\* searched before the ones under 'params'.
InitialSidDirectFirst(cur, m) ==
    IF m.frame # "json" THEN cur
    ELSE IF m.event = "connected"
    THEN Or(Or(Or(Or(cur, m.d_csi), m.d_cs), m.p_csi), m.pr_csi)
    ELSE Or(Or(cur, m.d_csi), m.d_cs)

\* Lines 112-144: the session id after the first message.
InitialSid(cur, m) ==
    IF m.frame # "json" THEN cur
    ELSE IF m.event = "connected"
    THEN Or(Or(Or(Or(cur, m.p_csi), m.d_csi), m.d_cs), m.pr_csi)
    ELSE Or(Or(cur, m.d_csi), m.d_cs)

\* Lines 112-144: the call SID after the first message.
InitialCallSid(tw, m) ==
    IF m.frame # "json" THEN tw
    ELSE IF m.event = "connected"
    THEN Or(Or(Or(Or(tw, m.p_tw), m.d_tw), m.d_callsid), m.pr_tw)
    ELSE Or(Or(tw, m.d_tw), m.d_callsid)

\* Lines 308-315: the chain a 'start' event is searched with.
StartChain(m) ==
    Or(Or(Or(Or(Or(m.cp_csi, m.cp_cs), m.s_csi), m.s_cs), m.d_csi), m.d_cs)

\* Mutant of StartSearched: every 'start' event is searched.
StartSearchedAlways(cur) == TRUE

\* Line 302: a 'start' event is searched only while the id is empty.
StartSearched(cur) == cur = None

\* Lines 318-323: the local call SID after a 'start' event that was searched.
StartCallSid(tw, m) == Or(Or(Or(tw, m.s_callsid), m.d_callsid), m.d_tw)

\* ------------------------------------------------------------ the handler

Active(c) == hpc[c] \in {"initial", "loop"}

Ended(c) == hpc[c] \notin {"idle", "initial", "loop"}

\* Mutant of TeardownStreams: the `finally` leaves the registry as it is.
TeardownStreamsKept(reg, id) == reg

\* Lines 383-384: the registry after the `finally` of a handler whose
\* session id is id.
TeardownStreams(reg, id) ==
    IF id # None /\ id \in DOMAIN reg THEN Pop(reg, id) ELSE reg

\* Mutant of TeardownFinish: the `finally` does not call finish().
TeardownFinishSkipped(n, d) == n

\* Lines 376-381: finish() calls after the `finally` of a handler whose
\* Deepgram connection is d.
TeardownFinish(n, d) == IF d # "none" THEN n + 1 ELSE n

\* Lines 55-98: a connection is accepted and the handler runs to its first
\* await.  Connections are numbered in the order they are accepted; the
\* server accepts none once server.close() was called (line 737).
AcceptWith(c, q) ==
    /\ hpc[c] = "idle"
    /\ \A d \in Conns : d < c => hpc[d] # "idle"
    /\ nsig = 0
    /\ ~mainDone
    /\ hpc' = [hpc EXCEPT ![c] = "initial"]
    /\ sid' = [sid EXCEPT ![c] = UrlSid(q)]
    /\ callSid' = [callSid EXCEPT ![c] = UrlCallSid(q)]
    /\ UNCHANGED <<dg, finishCount, dgSent, sentAfterFinish, closeCode, info,
                   active_streams>>
    /\ UNCHANGED transcriptVars
    /\ UNCHANGED mainVars

\* Lines 367-385: the handler leaves through `finally`, by path `how`, with
\* session id id and Deepgram connection d.
Leave(c, how, id, d) ==
    /\ hpc' = [hpc EXCEPT ![c] = how]
    /\ finishCount' = [finishCount EXCEPT ![c] = TeardownFinish(@, d)]
    /\ active_streams' = TeardownStreams(active_streams, id)

\* Lines 98-292: the first message m (frame "timeout": none came within 5 s)
\* and the setup of the Deepgram connection, whose outcome is `setup`:
\* "ok", "create_fail" (lines 165-180) or "start_fail" (lines 256-269).
InitialWith(c, m, setup) ==
    /\ hpc[c] = "initial"
    /\ ~mainDone
    /\ IF InitialRaises(sid[c], callSid[c], m)
       THEN /\ Leave(c, "error", sid[c], "none")
            /\ UNCHANGED <<sid, callSid, dg, closeCode, info>>
       ELSE LET id == InitialSid(sid[c], m)
                tw == InitialCallSid(callSid[c], m)
            IN  /\ sid' = [sid EXCEPT ![c] = id]
                /\ callSid' = [callSid EXCEPT ![c] = tw]
                /\ CASE setup = "create_fail" ->
                          /\ Leave(c, "create_fail", id, "none")
                          /\ closeCode' = [closeCode EXCEPT ![c] = 1011]
                          /\ UNCHANGED <<dg, info>>
                     [] setup = "start_fail" ->
                          /\ Leave(c, "start_fail", id, "created")
                          /\ dg' = [dg EXCEPT ![c] = "created"]
                          /\ closeCode' = [closeCode EXCEPT ![c] = 1011]
                          /\ UNCHANGED info
                     [] OTHER ->
                          /\ hpc' = [hpc EXCEPT ![c] = "loop"]
                          /\ dg' = [dg EXCEPT ![c] = "started"]
                          /\ info' = [info EXCEPT ![c] = NewInfo(tw)]
                          /\ active_streams' =
                                IF id # None THEN Put(active_streams, id, c)
                                ELSE active_streams
                          /\ UNCHANGED <<finishCount, closeCode>>
    /\ UNCHANGED <<dgSent, sentAfterFinish>>
    /\ UNCHANGED transcriptVars
    /\ UNCHANGED mainVars

\* Lines 299-335: a 'start' event in the message loop.
OnStart(c, m) ==
    IF ~StartSearched(sid[c]) \/ m.shape = "bad"
    THEN UNCHANGED <<sid, callSid, info, active_streams>>
    ELSE LET id == StartChain(m)
             tw == StartCallSid(callSid[c], m)
         IN  /\ sid' = [sid EXCEPT ![c] = id]
             /\ callSid' = [callSid EXCEPT ![c] = tw]
             /\ IF id # None
                THEN /\ info' = [info EXCEPT ![c].twilio_call_sid = tw]
                     /\ active_streams' = Put(active_streams, id, c)
                ELSE UNCHANGED <<info, active_streams>>

\* Lines 337-359: a 'media' event in the message loop.
OnMedia(c, m) ==
    /\ info' = [info EXCEPT ![c].media_count = @ + 1]
    /\ IF m.shape = "ok" /\ m.payload = "ok" /\ ~MulawRaises(m.bytes)
       THEN /\ dgSent' = [dgSent EXCEPT ![c] = Append(@, MulawToPcm(m.bytes))]
            /\ sentAfterFinish' =
                  [sentAfterFinish EXCEPT
                      ![c] = IF finishCount[c] > 0 THEN @ + 1 ELSE @]
       ELSE UNCHANGED <<dgSent, sentAfterFinish>>

\* Lines 292-365: one message of the loop.  A binary frame, text that is not
\* JSON, and JSON that is not an object (AttributeError, caught at line 363)
\* change nothing.
LoopWith(c, m) ==
    /\ hpc[c] = "loop"
    /\ ~mainDone
    /\ CASE m.frame = "json" /\ m.event = "start" ->
              /\ OnStart(c, m)
              /\ UNCHANGED <<dgSent, sentAfterFinish>>
         [] m.frame = "json" /\ m.event = "media" ->
              /\ info[c].media_count < MaxMedia
              /\ OnMedia(c, m)
              /\ UNCHANGED <<sid, callSid, active_streams>>
         [] OTHER ->
              UNCHANGED <<sid, callSid, info, active_streams, dgSent,
                          sentAfterFinish>>
    /\ UNCHANGED <<hpc, dg, finishCount, closeCode>>
    /\ UNCHANGED transcriptVars
    /\ UNCHANGED mainVars

\* Lines 367-385: recv() raises while the handler waits for a message:
\* "closed_ok" (ConnectionClosedOK, or the loop's normal end),
\* "closed_err" (ConnectionClosed) or "error" (any other exception).
ConnClosed(c, how) ==
    /\ Active(c)
    /\ ~mainDone
    /\ Leave(c, how, sid[c], dg[c])
    /\ UNCHANGED <<sid, callSid, dg, dgSent, sentAfterFinish, closeCode, info>>
    /\ UNCHANGED transcriptVars
    /\ UNCHANGED mainVars

\* ------------------------------------------------------------ transcripts

(***************************************************************************)
(* A transcript event of Deepgram.  ch, alt and top are the transcript     *)
(* under channel.alternatives[0], under alternatives[0] and at the top     *)
(* level: None (the attribute is missing or the string is empty), Blank    *)
(* (whitespace only) or a text.  spk is the speaker_id lines 494-529       *)
(* extract (None: no speaker in the result).  start, start_time and        *)
(* message_ts are the attributes of the result that lines 587-595 read,    *)
(* alt_start and word_start those of the first alternative and of its      *)
(* first word (lines 596-609): Absent (no such attribute), NoValue (the    *)
(* attribute holds None) or a time.                                        *)
(***************************************************************************)
Absent == "absent"

NoValue == "novalue"

\* Line 584: timestamp = 0.0.
Zero == "0.0"

Event(ch, alt, top, spk) ==
    [ch |-> ch, alt |-> alt, top |-> top, spk |-> spk,
     start |-> Absent, start_time |-> Absent, message_ts |-> Absent,
     alt_start |-> Absent, word_start |-> Absent]

\* An attribute value float() rejects with ValueError or TypeError, such as
\* the string "soon" or a list.
Junk == "junk"

\* The floats of the model.
Floats == {"0.0", "1.0", "2.0", "3.0", "4.0", "5.0"}

\* Mutant of Float: the attribute is taken as it is.
FloatUnchecked(v) == v

\* Lines 590-612: float(v) of an attribute: of a float, the float; of the
\* integer 2, 2.0; the value None is skipped (lines 590, 601, 608) or makes
\* float() raise TypeError, and a value that is no number makes it raise
\* ValueError or TypeError (lines 593, 595, 610-612): the timestamp remains
\* 0.0.
Float(v) ==
    IF v \in {NoValue, Junk} THEN Zero
    ELSE IF v = "2" THEN "2.0"
    ELSE v

\* Lines 584-612: the timestamp of event ev: the if/elif chain takes the
\* first attribute that exists.
Timestamp(ev) ==
    IF ev.start # Absent THEN Float(ev.start)
    ELSE IF ev.start_time # Absent THEN Float(ev.start_time)
    ELSE IF ev.message_ts # Absent THEN Float(ev.message_ts)
    ELSE IF ev.alt_start # Absent THEN Float(ev.alt_start)
    ELSE IF ev.word_start # Absent THEN Float(ev.word_start)
    ELSE Zero

\* A transcript of whitespace only: truthy, and empty after strip().
Blank == "ws"

\* Mutant of Sentence: the top-level transcript is searched first.
SentenceTopFirst(ev) ==
    IF ev.top # None THEN ev.top
    ELSE IF ev.ch # None THEN ev.ch
    ELSE ev.alt

\* Lines 459-477: the sentence extracted from event ev; `if not sentence`
\* moves on to the next source.
Sentence(ev) ==
    IF ev.ch # None THEN ev.ch
    ELSE IF ev.alt # None THEN ev.alt
    ELSE ev.top

\* Line 479: `not sentence or not sentence.strip()` discards the event.
Usable(s) == s # None /\ s # Blank

\* Mutant of CurrentId: a placeholder stands in for an empty session id.
CurrentIdOrPending(c) == IF sid[c] # None THEN sid[c] ELSE "pending"

\* Line 187: the session id transcript_handler reads when it is called.
CurrentId(c) == sid[c]

\* Mutant of Schedule: the new coroutine runs before the waiting ones.
ScheduleFront(q, task) == <<task>> \o q

\* Line 196: run_coroutine_threadsafe appends to the loop's ready queue.
Schedule(q, task) == Append(q, task)

\* Mutant of CallbackInfo: the callback maps the speaker itself.
CallbackInfoMapsSpeaker(inf, tok) ==
    IF tok = None \/ tok \in DOMAIN inf.speaker_mapping THEN inf
    ELSE [inf EXCEPT
            !.speaker_mapping =
                Put(@, tok, IF inf.next_speaker_index = 0 THEN "va"
                            ELSE "prospect"),
            !.next_speaker_index = @ + 1]

\* Lines 185-200: connection_info after transcript_handler was called for
\* an event with speaker token tok: the callback does not touch it.
CallbackInfo(inf, tok) == inf

\* Lines 185-200: transcript_handler, called in Deepgram's thread for event
\* ev of connection c.  Deepgram calls it while the connection is started
\* and finish() has not been called on it.
TranscriptHandlerWith(c, ev) ==
    /\ dg[c] = "started"
    /\ finishCount[c] = 0
    /\ ~mainDone
    /\ cbCount' = [cbCount EXCEPT ![c] = @ + 1]
    /\ arrivals' = [arrivals EXCEPT
                      ![c] = Append(@, [id |-> sid[c],
                                        usable |-> Usable(Sentence(ev))])]
    /\ loopQ' =
          IF CurrentId(c) # None
          THEN Schedule(loopQ, [conn |-> c, id |-> CurrentId(c), ev |-> ev,
                                seq |-> cbCount[c] + 1])
          ELSE loopQ
    /\ info' = [info EXCEPT ![c] = CallbackInfo(@, ev.spk)]
    /\ UNCHANGED <<inflight, posted, attrLog>>
    /\ UNCHANGED <<hpc, sid, callSid, dg, finishCount, dgSent, sentAfterFinish,
                   closeCode, active_streams>>
    /\ UNCHANGED mainVars

\* Mutant of SpeakerRole: the stored mapping is not consulted.
SpeakerRoleUnstored(inf, tok) ==
    IF inf.next_speaker_index = 0 THEN "va" ELSE "prospect"

\* Mutant of SpeakerRole: the new speakers are va and prospect in turn.
SpeakerRoleAlternating(inf, tok) ==
    IF tok \in DOMAIN inf.speaker_mapping THEN inf.speaker_mapping[tok]
    ELSE IF inf.next_speaker_index % 2 = 0 THEN "va" ELSE "prospect"

\* Lines 553-571: the role of speaker token tok under connection_info inf.
SpeakerRole(inf, tok) ==
    IF tok \in DOMAIN inf.speaker_mapping THEN inf.speaker_mapping[tok]
    ELSE IF inf.next_speaker_index = 0 THEN "va" ELSE "prospect"

\* Mutant of InfoAfterSpeaker: a token that is in the map is assigned again.
InfoAfterSpeakerReassign(inf, tok) ==
    [inf EXCEPT
        !.speaker_mapping =
            Put(@, tok, IF inf.next_speaker_index = 0 THEN "va"
                        ELSE "prospect"),
        !.next_speaker_index = @ + 1]

\* Lines 553-565: connection_info after token tok was attributed.
InfoAfterSpeaker(inf, tok) ==
    IF tok \in DOMAIN inf.speaker_mapping THEN inf
    ELSE [inf EXCEPT
            !.speaker_mapping = Put(@, tok, SpeakerRole(inf, tok)),
            !.next_speaker_index = @ + 1]

\* Line 492: the role of an event that is not mapped.
DefaultSpeaker == "prospect"

\* Mutant of Lookup: any connection_info of the registry is found.
LookupAny(reg, id) ==
    IF DOMAIN reg = {} THEN 0 ELSE reg[CHOOSE k \in DOMAIN reg : TRUE]

\* Lines 488-490: the connection_info found under session id id (0: none).
Lookup(reg, id) == IF id \in DOMAIN reg THEN reg[id] ELSE 0

\* Mutant of Mapped: an event without a speaker token is mapped too.
MappedWithoutToken(tok, owner) == owner # 0

\* Line 545: the speaker map is used for an event that carries a speaker
\* token, when the registry holds a connection_info for its session id.
Mapped(tok, owner) == tok # None /\ owner # 0

\* Mutant of Deliverable: nothing is posted for a session that is not in
\* the registry.
DeliverableIfRegistered(id) == id # None /\ id \in DOMAIN active_streams

\* Lines 621-625: send_to_laravel posts only with a session id.
Deliverable(id) == id # None

\* Lines 437-651: the event loop runs the next scheduled
\* on_deepgram_transcript coroutine, up to its first suspension: the POST
\* of send_to_laravel.
RunTask ==
    /\ loopQ # <<>>
    /\ ~mainDone
    /\ LET t == Head(loopQ)
           owner == Lookup(active_streams, t.id)
           tok == t.ev.spk
           mapped == Mapped(tok, owner)
           speaker == IF mapped THEN SpeakerRole(info[owner], tok)
                      ELSE DefaultSpeaker
           p == [conn |-> t.conn, id |-> t.id, speaker |-> speaker,
                 text |-> Sentence(t.ev), timestamp |-> Timestamp(t.ev),
                 seq |-> t.seq]
       IN  /\ loopQ' = Tail(loopQ)
           /\ IF ~Usable(Sentence(t.ev))
              THEN UNCHANGED <<info, attrLog, inflight, posted>>
              ELSE /\ info' = IF mapped
                              THEN [info EXCEPT
                                      ![owner] = InfoAfterSpeaker(@, tok)]
                              ELSE info
                   /\ attrLog' = IF mapped
                                 THEN [attrLog EXCEPT
                                         ![owner] = Append(@, <<tok, speaker>>)]
                                 ELSE attrLog
                   /\ IF Deliverable(t.id)
                      THEN /\ inflight' = inflight \cup {p}
                           /\ posted' = [posted EXCEPT ![t.conn] = Append(@, p)]
                      ELSE UNCHANGED <<inflight, posted>>
    /\ UNCHANGED <<hpc, sid, callSid, dg, finishCount, dgSent, sentAfterFinish,
                   closeCode, active_streams>>
    /\ UNCHANGED <<cbCount, arrivals>>
    /\ UNCHANGED mainVars

\* Lines 658-660: speaker_stats after one more delivery of role speaker.
Bump(stats, speaker) ==
    LET base == IF DOMAIN stats = {} THEN [r \in Roles |-> 0] ELSE stats
    IN  [base EXCEPT ![speaker] = @ + 1]

\* What ends a POST: the response's status, the 10 s timeout or a transport
\* error (lines 652-695).
Outcomes == {"201", "401", "422", "other", "timeout", "error"}

\* Mutant of PostedAfter: a POST that failed is issued again.
PostedAgain(ps, p, o) == IF o # "201" THEN Append(ps, p) ELSE ps

\* Lines 652-695: the POSTs issued once POST p has ended with outcome o:
\* no branch issues another one.
PostedAfter(ps, p, o) == ps

\* Lines 652-695: the POST p ends with outcome o.
CompletePost(p, o) ==
    /\ p \in inflight
    /\ ~mainDone
    /\ inflight' = inflight \ {p}
    /\ posted' = [posted EXCEPT ![p.conn] = PostedAfter(@, p, o)]
    /\ LET owner == Lookup(active_streams, p.id)
       IN  info' = IF o = "201" /\ owner # 0
                   THEN [info EXCEPT
                           ![owner].speaker_stats = Bump(@, p.speaker)]
                   ELSE info
    /\ UNCHANGED <<hpc, sid, callSid, dg, finishCount, dgSent, sentAfterFinish,
                   closeCode, active_streams>>
    /\ UNCHANGED <<cbCount, arrivals, loopQ, attrLog>>
    /\ UNCHANGED mainVars

\* --------------------------------------------------------------- shutdown

\* Lines 738-744 and 756-762: finish() is called on the Deepgram connection
\* of every entry of the registry.
FinishAll(n, reg) ==
    [c \in Conns |-> n[c] + Cardinality({k \in DOMAIN reg : reg[k] = c})]

\* Lines 735-744: signal_handler.  server.close() stops the accepting and
\* closes the open connections (see ServerClose).
Signal ==
    /\ nsig < MaxSignals
    /\ ~mainDone
    /\ nsig' = nsig + 1
    /\ atSignal' = {c \in Conns : Active(c)}
    /\ finishCount' = FinishAll(finishCount, active_streams)
    /\ UNCHANGED <<hpc, sid, callSid, dg, dgSent, sentAfterFinish, closeCode,
                   info, active_streams>>
    /\ UNCHANGED transcriptVars
    /\ UNCHANGED mainDone

\* Line 737: after server.close() the library closes every open connection;
\* the handler's recv() raises and the handler leaves through `finally`.
ServerClose(c) ==
    /\ nsig > 0
    /\ ConnClosed(c, "closed_ok")

\* Lines 749-762: wait_closed() returns once the server is closed and every
\* handler has ended; main's `finally` pops and finishes what is left.
MainReturn ==
    /\ nsig > 0
    /\ ~mainDone
    /\ \A c \in Conns : ~Active(c)
    /\ mainDone' = TRUE
    /\ finishCount' = FinishAll(finishCount, active_streams)
    /\ active_streams' = EmptyMap
    /\ UNCHANGED <<hpc, sid, callSid, dg, dgSent, sentAfterFinish, closeCode,
                   info>>
    /\ UNCHANGED transcriptVars
    /\ UNCHANGED <<nsig, atSignal>>

\* ------------------------------------------------------------------- Spec

(***************************************************************************)
(* Spec: the handlers of NumConns connections, the registry and the        *)
(* shutdown.  Its inputs: a URL with or without callSessionId, a first     *)
(* message that is missing, not an object, or a 'connected' event with or  *)
(* without a direct callSessionId, every outcome of the Deepgram setup,    *)
(* and in the loop noise and 'start' events with or without                *)
(* customParameters.callSessionId.                                         *)
(***************************************************************************)
SpecQueries == {[BlankQuery EXCEPT !.callSessionId = i] : i \in IdOpt}

Timeout == [BlankMsg EXCEPT !.frame = "timeout"]

SpecFirst ==
    {Timeout, [BlankMsg EXCEPT !.frame = "nonobject"]}
    \cup {[BlankMsg EXCEPT !.event = "connected", !.d_csi = i] : i \in IdOpt}

SpecLoop ==
    {[BlankMsg EXCEPT !.frame = "badjson"]}
    \cup {[BlankMsg EXCEPT !.event = "start", !.cp_csi = i] : i \in IdOpt}

Setups == {"ok", "create_fail", "start_fail"}

Exits == {"closed_ok", "closed_err", "error"}

Accept(c) ==
    /\ \E q \in SpecQueries : AcceptWith(c, q)
    /\ UNCHANGED obsVars

Initial(c) ==
    /\ \E m \in SpecFirst, s \in Setups : InitialWith(c, m, s)
    /\ UNCHANGED obsVars

Loop(c) ==
    /\ \E m \in SpecLoop : LoopWith(c, m)
    /\ UNCHANGED obsVars

Close(c) ==
    /\ \E how \in Exits : ConnClosed(c, how)
    /\ UNCHANGED obsVars

ServerCloses(c) ==
    /\ ServerClose(c)
    /\ UNCHANGED obsVars

Shutdown ==
    /\ Signal
    /\ UNCHANGED obsVars

MainExit ==
    /\ MainReturn
    /\ UNCHANGED obsVars

Next ==
    \/ \E c \in Conns : Accept(c)
    \/ \E c \in Conns : Initial(c)
    \/ \E c \in Conns : Loop(c)
    \/ \E c \in Conns : Close(c)
    \/ \E c \in Conns : ServerCloses(c)
    \/ Shutdown
    \/ MainExit

Spec == Init /\ [][Next]_vars

\* After server.close() the library closes every open connection and
\* wait_closed() returns once the handlers have ended.
Fairness ==
    /\ \A c \in Conns : WF_vars(ServerCloses(c))
    /\ WF_vars(MainExit)

FairSpec == Spec /\ Fairness

\* ------------------------------------------------------------ ResolveSpec

(***************************************************************************)
(* ResolveSpec: the identity resolution of one connection.  Every identity *)
(* field of the URL, of a 'connected' first message and of the 'start'     *)
(* events is absent or carries a value of its own, and hist records the    *)
(* sources in the order the handler consumed them.                         *)
(***************************************************************************)
Opt(v) == {None, v}

RQueries ==
    {[BlankQuery EXCEPT !.callSessionId = a, !.callSession = b] :
        a \in Opt("u1"), b \in Opt("u2")}

RFirst ==
    {Timeout}
    \cup {[BlankMsg EXCEPT !.event = "connected", !.p_csi = a, !.d_csi = b,
                           !.d_cs = c, !.pr_csi = d] :
            a \in Opt("p1"), b \in Opt("d1"), c \in Opt("d2"), d \in Opt("pr1")}

RStarts ==
    {[BlankMsg EXCEPT !.event = "start", !.cp_csi = a, !.cp_cs = b,
                      !.s_csi = c, !.s_cs = d, !.d_csi = e, !.d_cs = f] :
        a \in Opt("s1"), b \in Opt("s2"), c \in Opt("s3"), d \in Opt("s4"),
        e \in Opt("s5"), f \in Opt("s6")}

RAccept ==
    /\ \E q \in RQueries :
          /\ AcceptWith(1, q)
          /\ hist' = [hist EXCEPT ![1].url = q]
    /\ UNCHANGED <<deliveryObs, pcmVars>>

RInitial ==
    /\ \E m \in RFirst, s \in Setups :
          /\ InitialWith(1, m, s)
          /\ hist' = [hist EXCEPT
                        ![1].first = IF m.frame = "timeout" THEN <<>>
                                     ELSE <<m>>]
    /\ UNCHANGED <<deliveryObs, pcmVars>>

RStart ==
    /\ Len(hist[1].starts) < MaxStarts
    /\ \E m \in RStarts :
          /\ LoopWith(1, m)
          /\ hist' = [hist EXCEPT ![1].starts = Append(@, m)]
    /\ UNCHANGED <<deliveryObs, pcmVars>>

RClose ==
    /\ ConnClosed(1, "closed_ok")
    /\ UNCHANGED obsVars

ResolveNext ==
    \/ RAccept
    \/ RInitial
    \/ RStart
    \/ RClose

ResolveSpec == Init /\ [][ResolveNext]_vars

\* --------------------------------------------------------- TranscriptSpec

(***************************************************************************)
(* TranscriptSpec: one connection and its transcripts.  The session id     *)
(* comes with the URL or with a later 'start' event, or never; Deepgram    *)
(* makes up to MaxTranscripts callbacks, with or without usable text and   *)
(* with or without a speaker token; the connection closes and the process  *)
(* is shut down at any time.                                               *)
(***************************************************************************)
TQueries == {[BlankQuery EXCEPT !.callSessionId = i] : i \in Opt("a")}

TStart == [BlankMsg EXCEPT !.event = "start", !.cp_csi = "a"]

TEvents ==
    {Event("t1", None, None, s) : s \in Tokens \cup {None}}
    \cup {Event(Blank, None, None, None)}

TAccept ==
    /\ \E q \in TQueries : AcceptWith(1, q)
    /\ UNCHANGED obsVars

TInitial ==
    /\ InitialWith(1, Timeout, "ok")
    /\ UNCHANGED obsVars

TLoop ==
    /\ LoopWith(1, TStart)
    /\ UNCHANGED obsVars

TClose ==
    /\ ConnClosed(1, "closed_ok")
    /\ UNCHANGED obsVars

THandler ==
    /\ cbCount[1] < MaxTranscripts
    /\ \E ev \in TEvents : TranscriptHandlerWith(1, ev)
    /\ UNCHANGED obsVars

TTask ==
    /\ RunTask
    /\ UNCHANGED obsVars

TResponse ==
    /\ \E p \in inflight, o \in Outcomes : CompletePost(p, o)
    /\ UNCHANGED obsVars

TranscriptNext ==
    \/ TAccept
    \/ TInitial
    \/ TLoop
    \/ TClose
    \/ THandler
    \/ TTask
    \/ TResponse
    \/ Shutdown
    \/ MainExit

TranscriptSpec == Init /\ [][TranscriptNext]_vars

\* ----------------------------------------------------------- DeliverySpec

(***************************************************************************)
(* DeliverySpec: the deliveries of one session that got its id with the    *)
(* URL.  Every POST ends with any of the outcomes; the connection may      *)
(* close while POSTs await their response.  acked, failures and afterFail  *)
(* record the responses.                                                   *)
(***************************************************************************)
DQuery == [BlankQuery EXCEPT !.callSessionId = "a"]

DEvents == {Event("t1", None, None, s) : s \in {"A", "B", None}}

DAccept ==
    /\ AcceptWith(1, DQuery)
    /\ UNCHANGED obsVars

DInitial ==
    /\ InitialWith(1, Timeout, "ok")
    /\ UNCHANGED obsVars

DClose ==
    /\ ConnClosed(1, "closed_ok")
    /\ UNCHANGED obsVars

DHandler ==
    /\ cbCount[1] < MaxDeliveries
    /\ \E ev \in DEvents : TranscriptHandlerWith(1, ev)
    /\ UNCHANGED obsVars

DTask ==
    /\ RunTask
    /\ afterFail' =
          [c \in Conns |->
              IF posted'[c] # posted[c] /\ failures[c] > 0
              THEN afterFail[c] + 1 ELSE afterFail[c]]
    /\ UNCHANGED <<hist, acked, failures, pcmVars>>

DResponse ==
    /\ \E p \in inflight, o \in Outcomes :
          /\ CompletePost(p, o)
          /\ acked' = IF o = "201"
                      THEN [acked EXCEPT ![p.conn][p.speaker] = @ + 1]
                      ELSE acked
          /\ failures' = IF o = "201" THEN failures
                         ELSE [failures EXCEPT ![p.conn] = @ + 1]
    /\ UNCHANGED <<hist, afterFail, pcmVars>>

DeliveryNext ==
    \/ DAccept
    \/ DInitial
    \/ DClose
    \/ DHandler
    \/ DTask
    \/ DResponse

DeliverySpec == Init /\ [][DeliveryNext]_vars

\* ------------------------------------------------------------- StreamSpec

(***************************************************************************)
(* StreamSpec: the messages of one connection.  The first message and the  *)
(* messages of the loop are 'connected', 'start' and 'media' events and    *)
(* every kind of noise; hist records them in the order the handler         *)
(* consumed them.                                                          *)
(***************************************************************************)
SQueries == {[BlankQuery EXCEPT !.callSessionId = i] : i \in Opt("a")}

\* The mu-law audio of the 'media' events.
Frames == {<<0>>, <<255, 127>>}

SMedia ==
    {[BlankMsg EXCEPT !.event = "media", !.payload = "ok", !.bytes = f] :
        f \in Frames}

SNoise ==
    {[BlankMsg EXCEPT !.frame = "bytes"],
     [BlankMsg EXCEPT !.frame = "badjson"],
     [BlankMsg EXCEPT !.frame = "nonobject"],
     BlankMsg,
     [BlankMsg EXCEPT !.event = "connected", !.shape = "bad"],
     [BlankMsg EXCEPT !.event = "start", !.shape = "bad"],
     [BlankMsg EXCEPT !.event = "media"],
     [BlankMsg EXCEPT !.event = "media", !.shape = "bad"],
     [BlankMsg EXCEPT !.event = "media", !.payload = "bad"]}

SFirst ==
    {Timeout, [BlankMsg EXCEPT !.event = "connected"],
     [BlankMsg EXCEPT !.event = "start", !.cp_csi = "a"]}
    \cup SNoise \cup SMedia

SLoopMsgs ==
    {[BlankMsg EXCEPT !.event = "start", !.cp_csi = "a"],
     [BlankMsg EXCEPT !.event = "start", !.s_callsid = "CA1"],
     [BlankMsg EXCEPT !.event = "start", !.cp_csi = "a", !.d_callsid = "CA1"]}
    \cup SNoise \cup SMedia

SAccept ==
    /\ \E q \in SQueries :
          /\ AcceptWith(1, q)
          /\ hist' = [hist EXCEPT ![1].url = q]
    /\ UNCHANGED <<deliveryObs, pcmVars>>

SInitial ==
    /\ \E m \in SFirst, s \in Setups :
          /\ InitialWith(1, m, s)
          /\ hist' = [hist EXCEPT
                        ![1].first = IF m.frame = "timeout" THEN <<>>
                                     ELSE <<m>>]
    /\ UNCHANGED <<deliveryObs, pcmVars>>

SLoop ==
    /\ Len(hist[1].loop) < MaxMessages
    /\ \E m \in SLoopMsgs :
          /\ LoopWith(1, m)
          /\ hist' = [hist EXCEPT ![1].loop = Append(@, m)]
    /\ UNCHANGED <<deliveryObs, pcmVars>>

SClose ==
    /\ ConnClosed(1, "closed_ok")
    /\ UNCHANGED obsVars

StreamNext ==
    \/ SAccept
    \/ SInitial
    \/ SLoop
    \/ SClose

StreamSpec == Init /\ [][StreamNext]_vars

\* ---------------------------------------------------------------- PcmSpec

(***************************************************************************)
(* PcmSpec: one call of mulaw_to_pcm, on the empty input, on every single  *)
(* byte, and on every longer input over SampleBytes.                       *)
(***************************************************************************)
Bytes == 0..255

SampleBytes == {0, 127, 128, 255}

PcmInputs ==
    {<<>>} \cup {<<b>> : b \in Bytes}
    \cup UNION {[1..n -> SampleBytes] : n \in 2..MaxBytes}

PcmInit ==
    /\ ServerInit
    /\ mulaw_data \in PcmInputs
    /\ pcm_data = <<>>
    /\ pcm_pc = "idle"

\* Lines 387-431: the call mulaw_to_pcm(mulaw_data).
MulawCall ==
    /\ pcm_pc = "idle"
    /\ IF MulawRaises(mulaw_data)
       THEN /\ pcm_pc' = "raised"
            /\ pcm_data' = pcm_data
       ELSE /\ pcm_pc' = "returned"
            /\ pcm_data' = MulawToPcm(mulaw_data)
    /\ UNCHANGED mulaw_data
    /\ UNCHANGED <<connVars, transcriptVars, mainVars, hist, deliveryObs>>

PcmNext == MulawCall

PcmSpec == PcmInit /\ [][PcmNext]_vars

\* ------------------------------------------------------------ ExtractSpec

(***************************************************************************)
(* ExtractSpec: the text extraction for the events of one session.  Each   *)
(* of the three sources of an event is missing or empty, whitespace, or a  *)
(* text of its own.                                                        *)
(***************************************************************************)
XEvents ==
    {Event(ch, alt, top, s) :
        ch \in {None, Blank, "t1"}, alt \in {None, Blank, "t2"},
        top \in {None, Blank, "t3"}, s \in {None, "A"}}

XAccept ==
    /\ AcceptWith(1, DQuery)
    /\ UNCHANGED obsVars

XInitial ==
    /\ InitialWith(1, Timeout, "ok")
    /\ UNCHANGED obsVars

XHandler ==
    /\ cbCount[1] < MaxExtracts
    /\ \E ev \in XEvents : TranscriptHandlerWith(1, ev)
    /\ UNCHANGED obsVars

XTask ==
    /\ RunTask
    /\ UNCHANGED obsVars

XResponse ==
    /\ \E p \in inflight, o \in Outcomes : CompletePost(p, o)
    /\ UNCHANGED obsVars

ExtractNext ==
    \/ XAccept
    \/ XInitial
    \/ XHandler
    \/ XTask
    \/ XResponse

ExtractSpec == Init /\ [][ExtractNext]_vars

\* --------------------------------------------------------------- TimeSpec

(***************************************************************************)
(* TimeSpec: the timestamp of the events of one session.  Each of the five *)
(* attributes is absent, holds None, or holds a time of its own.           *)
(***************************************************************************)
MEvents ==
    {[Event("t1", None, None, None) EXCEPT
          !.start = a, !.start_time = b, !.message_ts = c,
          !.alt_start = d, !.word_start = e] :
        a \in {Absent, NoValue, "1.0"}, b \in {Absent, NoValue, "2.0"},
        c \in {Absent, NoValue, "3.0"}, d \in {Absent, NoValue, "4.0"},
        e \in {Absent, NoValue, "5.0"}}

MHandler ==
    /\ cbCount[1] < MaxStamps
    /\ \E ev \in MEvents : TranscriptHandlerWith(1, ev)
    /\ UNCHANGED obsVars

TimeNext ==
    \/ XAccept
    \/ XInitial
    \/ MHandler
    \/ XTask
    \/ XResponse

TimeSpec == Init /\ [][TimeNext]_vars

\* --------------------------------------------------------------- PairSpec

(***************************************************************************)
(* PairSpec: two connections with their transcripts and deliveries.  Each  *)
(* gets its session id, a or b, with the URL or with a 'start' event, or   *)
(* never; the two ids may be equal.                                        *)
(***************************************************************************)
PairConns == {1, 2}

PStarts == {[BlankMsg EXCEPT !.event = "start", !.cp_csi = i] : i \in Ids}

PMedia == {[BlankMsg EXCEPT !.event = "media", !.payload = "ok",
                            !.bytes = <<0>>]}

PEvents ==
    {[Event("t1", None, None, "A") EXCEPT !.start_time = "2"],
     [Event("t1", None, None, None) EXCEPT !.start = Junk],
     Event(Blank, None, None, "A")}

PAccept(c) ==
    /\ \E q \in SpecQueries : AcceptWith(c, q)
    /\ UNCHANGED obsVars

PInitial(c) ==
    /\ InitialWith(c, Timeout, "ok")
    /\ UNCHANGED obsVars

PLoop(c) ==
    /\ \E m \in PStarts \cup PMedia :
          /\ m.event = "media" => dgSent[c] = <<>>
          /\ LoopWith(c, m)
    /\ UNCHANGED obsVars

PClose(c) ==
    /\ ConnClosed(c, "closed_ok")
    /\ UNCHANGED obsVars

RECURSIVE Callbacks(_)
Callbacks(n) == IF n = 0 THEN 0 ELSE cbCount[n] + Callbacks(n - 1)

PHandler(c) ==
    /\ Callbacks(NumConns) < MaxPairEvents
    /\ \E ev \in PEvents : TranscriptHandlerWith(c, ev)
    /\ UNCHANGED obsVars

PairNext ==
    \/ \E c \in PairConns : PAccept(c)
    \/ \E c \in PairConns : PInitial(c)
    \/ \E c \in PairConns : PLoop(c)
    \/ \E c \in PairConns : PClose(c)
    \/ \E c \in PairConns : PHandler(c)
    \/ XTask
    \/ XResponse

PairSpec == Init /\ [][PairNext]_vars

\* ----------------------------------------------------------- RegistrySpec

(***************************************************************************)
(* RegistrySpec: two connections that get their session id, a or b, from a *)
(* 'start' event in the message loop: the URL carries none and no first    *)
(* message comes.  The two ids may be equal.                               *)
(***************************************************************************)
GEvents == {Event("t1", None, None, "A")}

GAccept(c) ==
    /\ AcceptWith(c, BlankQuery)
    /\ UNCHANGED obsVars

GHandler(c) ==
    /\ Callbacks(NumConns) < MaxPairEvents
    /\ \E ev \in GEvents : TranscriptHandlerWith(c, ev)
    /\ UNCHANGED obsVars

RegistryNext ==
    \/ \E c \in PairConns : GAccept(c)
    \/ \E c \in PairConns : PInitial(c)
    \/ \E c \in PairConns : PLoop(c)
    \/ \E c \in PairConns : PClose(c)
    \/ \E c \in PairConns : GHandler(c)
    \/ XTask
    \/ XResponse

RegistrySpec == Init /\ [][RegistryNext]_vars

\* ----------------------------------------------------------- ShutdownSpec

(***************************************************************************)
(* ShutdownSpec: two connections, with or without a session id in the URL, *)
(* that forward audio while the process receives the shutdown signal.      *)
(***************************************************************************)
HAccept(c) ==
    /\ \E q \in SQueries : AcceptWith(c, q)
    /\ UNCHANGED obsVars

HLoop(c) ==
    /\ \E m \in SMedia : LoopWith(c, m)
    /\ UNCHANGED obsVars

ShutdownNext ==
    \/ \E c \in PairConns : HAccept(c)
    \/ \E c \in PairConns : PInitial(c)
    \/ \E c \in PairConns : HLoop(c)
    \/ \E c \in PairConns : PClose(c)
    \/ \E c \in PairConns : ServerCloses(c)
    \/ Shutdown
    \/ MainExit

ShutdownSpec == Init /\ [][ShutdownNext]_vars

\* ----------------------------------------------------------------- claims

\* The handlers that own an entry of the registry.
Registered == {active_streams[k] : k \in DOMAIN active_streams}

\* C1: for every session whose Deepgram connection was created, finish() is
\* called on it exactly once over the run: never more than once, and once
\* when the session has ended, whichever path ended it.
C1_FinishExactlyOnce ==
    \A c \in Conns :
        dg[c] # "none" =>
            /\ finishCount[c] <= 1
            /\ Ended(c) => finishCount[c] = 1

\* C2: once a handler has ended, by whichever path, its Deepgram connection
\* (if one was created) has been finalized and the registry holds no entry
\* of that session.
C2_TeardownReached ==
    \A c \in Conns :
        Ended(c) =>
            /\ dg[c] # "none" => finishCount[c] >= 1
            /\ c \notin Registered

\* A handler that had registered its session ended by an error mid-stream.
C2_Witness ==
    \E c \in Conns :
        /\ hpc[c] = "error"
        /\ dg[c] = "started"
        /\ sid[c] # None
        /\ finishCount[c] >= 1

\* C3: after a shutdown signal no new connection is accepted, and main
\* eventually returns, with every handler ended, the Deepgram connection of
\* every session that was active at the signal finalized (registered or
\* not) and the registry empty.
C3_Shutdown ==
    /\ [][nsig > 0 =>
            \A c \in Conns : hpc[c] = "idle" => hpc'[c] = "idle"]_vars
    /\ (nsig > 0) ~> mainDone
    /\ [](mainDone =>
            /\ DOMAIN active_streams = {}
            /\ \A c \in Conns : ~Active(c)
            /\ \A c \in atSignal : dg[c] # "none" => finishCount[c] >= 1)

\* main has returned after a signal that found two sessions active: one
\* registered, one that never resolved its id.
C3_Witness ==
    /\ mainDone
    /\ \E c \in atSignal : sid[c] # None /\ dg[c] = "started"
    /\ \E c \in atSignal : sid[c] = None /\ dg[c] = "started"

\* The session-id fields of the sources h records, highest precedence first.
FirstFields(h) ==
    IF h.first = <<>> THEN <<>>
    ELSE <<h.first[1].p_csi, h.first[1].d_csi, h.first[1].d_cs,
           h.first[1].pr_csi>>

RECURSIVE StartFields(_)
StartFields(ss) ==
    IF ss = <<>> THEN <<>>
    ELSE <<ss[1].cp_csi, ss[1].cp_cs, ss[1].s_csi, ss[1].s_cs, ss[1].d_csi,
           ss[1].d_cs>> \o StartFields(Tail(ss))

SidFields(h) ==
    <<h.url.callSessionId, h.url.callSession>> \o FirstFields(h)
        \o StartFields(h.starts)

\* The first field of L that carries a value.
FirstPresent(L) ==
    IF \E i \in DOMAIN L : L[i] # None
    THEN L[CHOOSE i \in DOMAIN L :
                /\ L[i] # None
                /\ \A j \in DOMAIN L : j < i => L[j] = None]
    ELSE None

\* C6: once the session id of a handler is non-empty, no later URL alias,
\* 'connected' field or 'start' event changes it or empties it.
C6_SidStable ==
    [][\A c \in Conns : sid[c] # None => sid'[c] = sid[c]]_vars

\* The id of the URL is kept after a 'connected' event and a 'start' event
\* that both carry other ids.
C6_Witness ==
    /\ sid[1] = "u1"
    /\ hist[1].first # <<>>
    /\ hist[1].first[1].p_csi = "p1"
    /\ hist[1].starts # <<>>
    /\ hist[1].starts[1].cp_csi = "s1"

\* C7: the resolved session id is the value of the highest-precedence
\* source that carries one: URL callSessionId, callSession; 'connected'
\* params.callSessionId, callSessionId, callSession, protocol.callSessionId;
\* 'start' customParameters, start, the message itself.
C7_Precedence == sid[1] = FirstPresent(SidFields(hist[1]))

\* The direct alias of the 'connected' event wins over its protocol field
\* and over a later 'start' event; the sources above it carry nothing.
C7_Witness ==
    /\ sid[1] = "d2"
    /\ hist[1].first # <<>>
    /\ hist[1].first[1].pr_csi = "pr1"
    /\ hist[1].starts # <<>>
    /\ hist[1].starts[1].cp_csi = "s1"

\* The POSTs of connection c that await their response.
InFlightOf(c) == {p \in inflight : p.conn = c}

\* C4: the POSTs of one session are issued in the order in which Deepgram
\* called the transcript callback for their events.
C4_PostOrder ==
    \A c \in Conns :
        \A i, j \in DOMAIN posted[c] :
            i < j => posted[c][i].seq < posted[c][j].seq

\* Three events of one session were called back and all three were posted.
C4_Witness == Len(posted[1]) = 3

\* C5: at any time at most one POST of a session is in flight.
C5_OneInFlight == \A c \in Conns : Cardinality(InFlightOf(c)) <= 1

\* What C8 says of the states: no POST while the session id is empty, and
\* every scheduled or posted event arrived while the id was non-empty and is
\* delivered with that id.
C8_NoIdNoPost ==
    \A c \in Conns :
        /\ sid[c] = None => posted[c] = <<>>
        /\ \A k \in DOMAIN posted[c] :
              /\ posted[c][k].id # None
              /\ arrivals[c][posted[c][k].seq].id = posted[c][k].id
        /\ \A k \in DOMAIN loopQ :
              loopQ[k].conn = c => arrivals[c][loopQ[k].seq].id # None

\* C8: while the session id is empty no POST is issued for the session, a
\* transcript callback does not end the session, and an event that arrived
\* while the id was empty is never delivered, also when the id is resolved
\* afterwards.
C8_DroppedForGood ==
    /\ []C8_NoIdNoPost
    /\ [][cbCount' # cbCount => hpc' = hpc /\ closeCode' = closeCode]_vars

\* An event with text arrived while the id was empty, the id was resolved
\* afterwards, a later event was posted and nothing is left to run.
C8_Witness ==
    /\ Len(arrivals[1]) >= 2
    /\ arrivals[1][1] = [id |-> None, usable |-> TRUE]
    /\ sid[1] = "a"
    /\ hpc[1] = "loop"
    /\ loopQ = <<>>
    /\ Len(posted[1]) = 1
    /\ posted[1][1].seq = 2

\* C9: of the tokens attributed through one connection_info, the first
\* distinct token gets 'va', every other token 'prospect', and a repeated
\* token the role of its first occurrence.
C9_FirstIsVa ==
    \A c \in Conns :
        \A i \in DOMAIN attrLog[c] :
            attrLog[c][i][2] =
                IF attrLog[c][i][1] = attrLog[c][1][1] THEN "va"
                ELSE "prospect"

\* The tokens A, B, A were attributed va, prospect, va.
C9_Witness ==
    attrLog[1] = << <<"A", "va">>, <<"B", "prospect">>, <<"A", "va">> >>

\* C10: speaker_mapping is append-only: a token that is in the map stays in
\* it with the same role.
C10_AppendOnly ==
    [][\A c \in Conns :
          \A t \in DOMAIN info[c].speaker_mapping :
              /\ t \in DOMAIN info'[c].speaker_mapping
              /\ info'[c].speaker_mapping[t] = info[c].speaker_mapping[t]]_vars

\* Three distinct tokens were added to the map, one after the other.
C10_Witness ==
    /\ DOMAIN info[1].speaker_mapping = {"A", "B", "C"}
    /\ info[1].next_speaker_index = 3

\* The task the event loop runs next is for an event with usable text.
NextTaskUsable == loopQ # <<>> /\ Usable(Sentence(Head(loopQ).ev))

\* C11: an event with usable text and no speaker token is attributed the
\* role 'prospect' (the role of the POST its task issues), and its task
\* changes no speaker_mapping and no next_speaker_index.
C11_NoTokenIsProspect ==
    [][(NextTaskUsable /\ loopQ' = Tail(loopQ) /\ Head(loopQ).ev.spk = None)
          => /\ LET c == Head(loopQ).conn
                IN  /\ Len(posted'[c]) = Len(posted[c]) + 1
                    /\ posted'[c][Len(posted'[c])].speaker = "prospect"
             /\ \A c \in Conns :
                   /\ info'[c].speaker_mapping = info[c].speaker_mapping
                   /\ info'[c].next_speaker_index =
                         info[c].next_speaker_index]_vars

\* A registered session attributed token A ('va') and then an event without
\* a token: the second POST says 'prospect' and the map holds A alone.
C11_Witness ==
    /\ hpc[1] = "loop"
    /\ Len(posted[1]) = 2
    /\ posted[1][1].speaker = "va"
    /\ posted[1][2].speaker = "prospect"
    /\ DOMAIN info[1].speaker_mapping = {"A"}
    /\ info[1].next_speaker_index = 1

\* The delivery counter of role r in connection_info inf.
StatOf(inf, r) ==
    IF r \in DOMAIN inf.speaker_stats THEN inf.speaker_stats[r] ELSE 0

\* C12: the delivery counters of a session count its 201 responses, role
\* by role: a 201 adds one to the counter of the role of its transcript and
\* to no other counter, and any other outcome changes no counter.
C12_CountersFollow201 ==
    \A c \in Conns :
        info[c].exists => \A r \in Roles : StatOf(info[c], r) = acked[c][r]

\* C13: an event causes at most one POST; the end of a POST, whatever its
\* outcome, issues no POST and schedules nothing, and leaves the handler
\* and its Deepgram connection as they were; and the task of a later event
\* with usable text issues its POST whatever failed before.
C13_NoRetryNotFatal ==
    /\ [](\A c \in Conns :
            \A i, j \in DOMAIN posted[c] :
                i # j => posted[c][i].seq # posted[c][j].seq)
    /\ [][(failures' # failures \/ acked' # acked)
              => /\ posted' = posted
                 /\ loopQ' = loopQ
                 /\ hpc' = hpc
                 /\ closeCode' = closeCode
                 /\ dg' = dg
                 /\ finishCount' = finishCount
                 /\ active_streams' = active_streams]_vars
    /\ [][(NextTaskUsable /\ loopQ' = Tail(loopQ))
              => LET c == Head(loopQ).conn
                 IN  Len(posted'[c]) = Len(posted[c]) + 1]_vars

\* A POST of the session failed, a POST of a later event was issued after
\* that, and the handler is still in its message loop.
C13_Witness ==
    /\ hpc[1] = "loop"
    /\ failures[1] >= 1
    /\ afterFail[1] >= 1

\* The handlers whose Deepgram connection could not be created or started.
SetupFailed(c) == hpc[c] \in {"create_fail", "start_fail"}

\* The registry keys under which the record of handler c is stored.
KeysOf(reg, c) == {k \in DOMAIN reg : reg[k] = c}

\* C14: a handler whose Deepgram connection cannot be created or started
\* closes its own inbound connection with code 1011, is never in the
\* registry and has forwarded no audio; and the step in which it fails
\* leaves every other session's connection, registry entries and
\* connection_info (speaker map, counters) as they were.
C14_SetupFailureIsolated ==
    /\ [](\A c \in Conns :
            SetupFailed(c) =>
                /\ closeCode[c] = 1011
                /\ c \notin Registered
                /\ dgSent[c] = <<>>)
    /\ [][\A c \in Conns :
            (hpc[c] = "initial" /\ SetupFailed(c)')
                => \A d \in Conns \ {c} :
                      /\ hpc'[d] = hpc[d]
                      /\ closeCode'[d] = closeCode[d]
                      /\ finishCount'[d] = finishCount[d]
                      /\ info'[d] = info[d]
                      /\ KeysOf(active_streams', d) =
                            KeysOf(active_streams, d)]_vars

\* The noise C15 lists: text that is not JSON, JSON that is not an object
\* or has a field of unexpected shape, a 'media' event without payload, an
\* unrecognized event type.
Noisy(m) ==
    \/ m.frame \in {"badjson", "nonobject"}
    \/ /\ m.frame = "json"
       /\ \/ m.shape = "bad"
          \/ m.event = "other"
          \/ m.event = "media" /\ m.payload = "none"

\* C15: a noisy message is skipped and the session goes on: as the first
\* message it does not end the handler with an error and changes no
\* identifier, as a message of the loop it leaves the handler in its loop
\* with its identifiers, its registry entry and its Deepgram connection as
\* they were.
C15_NoiseSkipped ==
    [][/\ (hist[1].first = <<>> /\ hist'[1].first # <<>>
            /\ Noisy(hist'[1].first[1]))
          => /\ hpc'[1] # "error"
             /\ sid'[1] = sid[1]
             /\ callSid'[1] = callSid[1]
       /\ (Len(hist'[1].loop) > Len(hist[1].loop)
            /\ Noisy(hist'[1].loop[Len(hist'[1].loop)]))
          => /\ hpc'[1] = "loop"
             /\ sid'[1] = sid[1]
             /\ callSid'[1] = callSid[1]
             /\ dg'[1] = dg[1]
             /\ finishCount'[1] = finishCount[1]
             /\ dgSent'[1] = dgSent[1]
             /\ active_streams' = active_streams]_vars

\* A 'media' event with a decodable, non-empty payload.
GoodMedia(m) ==
    m.frame = "json" /\ m.event = "media" /\ m.shape = "ok" /\ m.payload = "ok"

\* The PCM buffers of the 'media' events of ms with usable audio, in order.
RECURSIVE PcmOf(_)
PcmOf(ms) ==
    IF ms = <<>> THEN <<>>
    ELSE IF GoodMedia(Head(ms))
    THEN <<MulawToPcm(Head(ms).bytes)>> \o PcmOf(Tail(ms))
    ELSE PcmOf(Tail(ms))

\* C16: what was sent to the Deepgram connection is the transcoded audio of
\* every 'media' message with usable payload the connection received, the
\* first message included, each once and in arrival order.
C16_NoAudioLost == dgSent[1] = PcmOf(hist[1].first \o hist[1].loop)

\* The signed sample two bytes of PCM16 encode, low byte first.
SampleAt(pcm, i) ==
    LET u == pcm[2 * i - 1] + 256 * pcm[2 * i]
    IN  IF u >= 32768 THEN u - 65536 ELSE u

\* C17: mulaw_to_pcm on N bytes returns 2N bytes, each in 0..255, of which
\* bytes 2i and 2i+1 encode the table entry of input byte i in two's
\* complement, low byte first; the call changes nothing of the handlers.
C17_TwoBytesPerByte ==
    /\ [](pcm_pc = "returned" =>
            /\ Len(pcm_data) = 2 * Len(mulaw_data)
            /\ \A k \in DOMAIN pcm_data : pcm_data[k] \in Bytes
            /\ \A i \in DOMAIN mulaw_data :
                  /\ SampleAt(pcm_data, i) = mulaw_table[mulaw_data[i] + 1]
                  /\ pcm_data[2 * i - 1] = mulaw_table[mulaw_data[i] + 1] % 256)
    /\ [][pcm_pc' # pcm_pc =>
            /\ mulaw_data' = mulaw_data
            /\ UNCHANGED <<connVars, transcriptVars, mainVars>>]_vars

\* Three bytes were transcoded to six, among them a negative sample.
C17_Witness ==
    /\ pcm_pc = "returned"
    /\ mulaw_data = <<0, 255, 128>>
    /\ pcm_data = <<132, 130, 0, 0, 124, 125>>

\* C18 as stated: two distinct input bytes never give the same sample.
C18_Bijection ==
    pcm_pc = "returned" =>
        \A i, j \in DOMAIN mulaw_data :
            mulaw_data[i] # mulaw_data[j]
                => SampleAt(pcm_data, i) # SampleAt(pcm_data, j)

\* C18, amended: two distinct input bytes give the same sample only when
\* they are 0x7F and 0xFF, which both give 0.
C18_InjectiveButZero ==
    /\ \A a, b \in Bytes :
          (a # b /\ Sample(a) = Sample(b))
              => {a, b} = {127, 255} /\ Sample(a) = 0
    /\ pcm_pc = "returned" =>
          \A i, j \in DOMAIN mulaw_data :
              (mulaw_data[i] # mulaw_data[j]
               /\ SampleAt(pcm_data, i) = SampleAt(pcm_data, j))
                  => {mulaw_data[i], mulaw_data[j]} = {127, 255}

\* The bytes 0x7F and 0xFF were transcoded to the same sample, and the
\* byte 0x80 to another one.
C18_Witness ==
    /\ pcm_pc = "returned"
    /\ mulaw_data = <<127, 255, 128>>
    /\ SampleAt(pcm_data, 1) = SampleAt(pcm_data, 2)
    /\ SampleAt(pcm_data, 3) # SampleAt(pcm_data, 2)

\* C19: mulaw_to_pcm never raises: the table has 256 entries, one for each
\* byte value, every entry is in the signed 16-bit range, and no call ends
\* with an exception.
C19_NoErrorOutcome ==
    /\ Len(mulaw_table) = 256
    /\ \A b \in Bytes : InTable(b)
    /\ \A k \in DOMAIN mulaw_table :
          mulaw_table[k] >= -32768 /\ mulaw_table[k] <= 32767
    /\ pcm_pc # "raised"

\* The call returned on an input with the largest and the smallest sample
\* and the last byte value.
C19_Witness ==
    /\ pcm_pc = "returned"
    /\ mulaw_data = <<128, 0, 255>>
    /\ Len(pcm_data) = 6

\* The three sources of the text of event ev, highest precedence first.
TextSources(ev) == <<ev.ch, ev.alt, ev.top>>

\* C20: the text of a delivered transcript is that of the first source, in
\* the order channel.alternatives[0].transcript, alternatives[0].transcript,
\* top-level transcript, that yields non-empty text; an event of which no
\* source yields text that is non-empty after strip() is discarded: its
\* task attributes nothing, changes no state and delivers nothing.
C20_TextPrecedence ==
    [][(loopQ # <<>> /\ loopQ' = Tail(loopQ))
          => LET ev == Head(loopQ).ev
                 c == Head(loopQ).conn
                 L == TextSources(ev)
             IN  /\ posted'[c] # posted[c]
                       => /\ Len(posted'[c]) = Len(posted[c]) + 1
                          /\ posted'[c][Len(posted'[c])].text = FirstPresent(L)
                 /\ (\A i \in DOMAIN L : ~Usable(L[i]))
                       => /\ posted' = posted
                          /\ inflight' = inflight
                          /\ attrLog' = attrLog
                          /\ info' = info
                          /\ active_streams' = active_streams]_vars

\* An event with nothing under channel.alternatives and alternatives was
\* delivered with its top-level transcript.
C20_Witness ==
    /\ Len(posted[1]) = 1
    /\ posted[1][1].text = "t3"

\* The five timestamp attributes of event ev, highest precedence first.
TimeSources(ev) ==
    <<ev.start, ev.start_time, ev.message_ts, ev.alt_start, ev.word_start>>

\* The first attribute of L that holds a time, Zero when none does.
FirstTime(L) ==
    IF \E i \in DOMAIN L : L[i] \notin {Absent, NoValue}
    THEN L[CHOOSE i \in DOMAIN L :
                /\ L[i] \notin {Absent, NoValue}
                /\ \A j \in DOMAIN L : j < i => L[j] \in {Absent, NoValue}]
    ELSE Zero

\* C21: the timestamp of a delivered transcript is the value of the first
\* of result.start, result.start_time, result.message_ts, the first
\* alternative's start and the first word's start that holds a usable
\* value, an attribute without one being passed over, and 0 only when none
\* of the five holds one.
C21_TimestampFallback ==
    [][(loopQ # <<>> /\ loopQ' = Tail(loopQ))
          => LET ev == Head(loopQ).ev
                 c == Head(loopQ).conn
             IN  posted'[c] # posted[c]
                    => posted'[c][Len(posted'[c])].timestamp =
                          FirstTime(TimeSources(ev))]_vars

\* C22: a call of the transcript callback changes no registry entry, no
\* connection_info (speaker map, index, counters) and no handler, and issues
\* no POST: at most it appends one task to the queue of the event loop,
\* behind the tasks that wait there.
C22_CallbackOnlySchedules ==
    [][cbCount' # cbCount
          => /\ active_streams' = active_streams
             /\ info' = info
             /\ attrLog' = attrLog
             /\ inflight' = inflight
             /\ posted' = posted
             /\ hpc' = hpc /\ sid' = sid /\ dg' = dg
             /\ \/ loopQ' = loopQ
                \/ /\ Len(loopQ') = Len(loopQ) + 1
                   /\ SubSeq(loopQ', 1, Len(loopQ)) = loopQ]_vars

\* The callback was called a third time, for a session with a speaker in its
\* map, while a task waited on the loop and a POST was in flight.
C22_Witness ==
    /\ cbCount[1] = 3
    /\ Len(loopQ) = 2
    /\ inflight # {}
    /\ DOMAIN info[1].speaker_mapping # {}

\* The call SID a 'start' event carries: start.callSid, callSid or
\* twilioCallSid.
StartLeg(m) == Or(Or(m.s_callsid, m.d_callsid), m.d_tw)

\* C23: when neither the URL nor the first message carried a call SID and
\* a 'start' event of the loop carries one, the handler's twilio_call_sid
\* becomes that value, with the session id resolved before or not.
C23_LateCallSid ==
    [][(Len(hist'[1].loop) > Len(hist[1].loop) /\ callSid[1] = None)
          => LET m == hist'[1].loop[Len(hist'[1].loop)]
             IN  (m.frame = "json" /\ m.event = "start" /\ m.shape = "ok"
                  /\ StartLeg(m) # None)
                    => callSid'[1] = StartLeg(m)]_vars

\* The connections that take the step: the handler that moved, resolved its
\* id or forwarded a frame, the connection whose callback fired, the one
\* whose scheduled coroutine ran, the one whose POST ended.
PairActors ==
    {c \in Conns : \/ hpc'[c] # hpc[c]
                   \/ sid'[c] # sid[c]
                   \/ dgSent'[c] # dgSent[c]
                   \/ cbCount'[c] # cbCount[c]}
      \cup (IF loopQ # <<>> /\ loopQ' = Tail(loopQ)
            THEN {Head(loopQ).conn} ELSE {})
      \cup {p.conn : p \in inflight \ inflight'}

\* C24: a step of one session (identity resolution, audio frame,
\* transcript callback, attribution, end of a delivery, teardown) leaves
\* every session with another session id as it was: its registry entries,
\* its connection_info (speaker map, next index, delivery counters, media
\* count), its Deepgram connection and what was sent to it, its handler.
C24_SessionsIndependent ==
    [][\A c \in PairActors : \A d \in Conns \ {c} :
          sid'[c] # sid'[d] =>
              /\ info'[d] = info[d]
              /\ KeysOf(active_streams', d) = KeysOf(active_streams, d)
              /\ dg'[d] = dg[d]
              /\ finishCount'[d] = finishCount[d]
              /\ dgSent'[d] = dgSent[d]
              /\ hpc'[d] = hpc[d]
              /\ closeCode'[d] = closeCode[d]]_vars

C24_Witness ==
    /\ sid[1] = "a" /\ sid[2] = "b"
    /\ Ended(1) /\ 2 \in Registered
    /\ \A c \in Conns :
          /\ StatOf(info[c], "va") = 1
          /\ info[c].next_speaker_index = 1
          /\ info[c].media_count = 1

\* C25: a handler creates a Deepgram connection at most once, in the step
\* that ends its wait for the first message; and that step, taken on a
\* timeout or on a first message, with the session id resolved or not,
\* creates and starts the connection (or fails doing so, the setup failure
\* of Deepgram).
C25_OneDeepgramAlways ==
    [][/\ dg'[1] # dg[1] => (dg[1] = "none" /\ hpc[1] = "initial")
       /\ (hpc[1] = "initial" /\ hpc'[1] \notin {"initial", "closed_ok"})
             => (dg'[1] = "started" \/ SetupFailed(1)')]_vars

\* C26: every POST carries a session id that is not empty and is the id of
\* the session whose callback received the event, a speaker among va,
\* prospect and system, a text that is not blank and a float as timestamp.
C26_PostWellFormed ==
    \A c \in Conns : \A i \in DOMAIN posted[c] :
        LET p == posted[c][i]
        IN  /\ p.id # None
            /\ p.id = sid[c]
            /\ p.speaker \in Roles
            /\ p.text \notin {None, Blank}
            /\ p.timestamp \in Floats

C26_Witness ==
    /\ sid[1] = "a" /\ sid[2] = "b"
    /\ Len(posted[1]) = 1 /\ Len(posted[2]) = 1
    /\ posted[1][1].timestamp = "2.0"
    /\ posted[2][1].timestamp = Zero
    /\ posted[2][1].speaker = "prospect"

\* C27: every key of the registry is the resolved id of the session stored
\* under it; once a 'start' event has resolved the id of a session, the
\* registry holds an entry under that id, from that step on, for as long as
\* the handler of the session runs; and the callbacks that come after the
\* resolution schedule their event with that id, the id of every POST.
C27_RegisteredUnderOwnId ==
    /\ [](\A k \in DOMAIN active_streams :
            k # None /\ sid[active_streams[k]] = k)
    /\ [](\A c \in Conns :
            (hpc[c] = "loop" /\ sid[c] # None)
                => sid[c] \in DOMAIN active_streams)
    /\ [][\A c \in Conns :
            (cbCount'[c] # cbCount[c] /\ sid[c] # None)
                => /\ Len(loopQ') = Len(loopQ) + 1
                   /\ loopQ'[Len(loopQ')].id = sid[c]]_vars
    /\ [](\A c \in Conns : \A i \in DOMAIN posted[c] :
            posted[c][i].id = sid[c])

\* C28: the step that ends a handler removes from the registry no record
\* but the handler's own: the records of the other sessions, those with
\* the same session id included, are under the same keys after it.
C28_TeardownRemovesOwnRecord ==
    [][\A c \in Conns :
          (Active(c) /\ Ended(c)')
              => \A d \in Conns \ {c} :
                    KeysOf(active_streams', d) = KeysOf(active_streams, d)]_vars

\* A 'start' event that carries a session id under start.customParameters.
StartWithId(m) ==
    m.frame = "json" /\ m.event = "start" /\ m.shape = "ok" /\ m.cp_csi # None

\* C29: a 'start' event with callSessionId under start.customParameters,
\* received while the session id is unresolved, resolves it to that value,
\* be it the first message of the connection or a message of the loop.
C29_StartResolvesAnywhere ==
    [][sid[1] = None =>
          /\ (hist'[1].first # hist[1].first /\ StartWithId(hist'[1].first[1]))
                => sid'[1] = hist'[1].first[1].cp_csi
          /\ (Len(hist'[1].loop) > Len(hist[1].loop)
               /\ StartWithId(hist'[1].loop[Len(hist'[1].loop)]))
                => sid'[1] = hist'[1].loop[Len(hist'[1].loop)].cp_csi]_vars

\* The scheduled coroutine that runs in this step belongs to a session whose
\* handler has ended: finish() was called and its registry entry popped.
LateTask ==
    /\ loopQ # <<>>
    /\ loopQ' = Tail(loopQ)
    /\ Ended(Head(loopQ).conn)

\* C30 as stated: a coroutine that was scheduled before the teardown of its
\* session and runs after it starts no HTTP delivery.
C30_NoDeliveryAfterTeardown ==
    [][LateTask => (posted' = posted /\ inflight' = inflight)]_vars

\* C30, amended: the teardown does not cancel the scheduled coroutines: one
\* that runs after the teardown of its session starts its POST, with the
\* session id, and does not put the session back into the registry.
C30_LateWorkDelivered ==
    [][LateTask =>
          LET c == Head(loopQ).conn
          IN  /\ Len(posted'[c]) = Len(posted[c]) + 1
              /\ posted'[c][Len(posted'[c])].id = sid[c]
              /\ posted'[c][Len(posted'[c])].seq = Head(loopQ).seq
              /\ posted'[c][Len(posted'[c])] \in inflight'
              /\ active_streams' = active_streams]_vars

C30_Witness ==
    /\ hpc[2] = "idle"
    /\ Ended(1) /\ finishCount[1] = 1 /\ active_streams = EmptyMap
    /\ sid[1] = "a"
    /\ Len(posted[1]) = 1
    /\ posted[1][1].speaker = DefaultSpeaker

\* The scheduled coroutine that runs in this step is that of an event with
\* usable text and a speaker token, of a session whose handler is running.
TokenTask ==
    /\ loopQ # <<>>
    /\ loopQ' = Tail(loopQ)
    /\ Head(loopQ).ev.spk # None
    /\ Usable(Sentence(Head(loopQ).ev))
    /\ hpc[Head(loopQ).conn] = "loop"

\* C31: an event with a speaker token is attributed through the speaker map
\* of the session whose Deepgram connection emitted it: the role of its
\* POST is the one that map holds for the token after the step, and the
\* step leaves the connection_info of every other connection as it was.
C31_OwnSpeakerMap ==
    [][TokenTask =>
          LET c == Head(loopQ).conn
              tok == Head(loopQ).ev.spk
          IN  /\ tok \in DOMAIN info'[c].speaker_mapping
              /\ Len(posted'[c]) = Len(posted[c]) + 1
              /\ posted'[c][Len(posted'[c])].speaker =
                    info'[c].speaker_mapping[tok]
              /\ \A d \in Conns \ {c} : info'[d] = info[d]]_vars

\* The tokens that speaker_mapping m maps to role r.
TokensOf(m, r) == {t \in DOMAIN m : m[t] = r}

\* C32: in every state, the connection_info of a session that was set up
\* has next_speaker_index equal to the number of entries of
\* speaker_mapping, at most one token mapped to va, and a token mapped to
\* va whenever the map is not empty.
C32_IndexCountsMap ==
    \A c \in Conns :
        info[c].exists =>
            LET m == info[c].speaker_mapping
            IN  /\ info[c].next_speaker_index = Cardinality(DOMAIN m)
                /\ Cardinality(TokensOf(m, "va")) <= 1
                /\ DOMAIN m # {} => TokensOf(m, "va") # {}

C32_Witness ==
    /\ 1 \in Registered
    /\ TokensOf(info[1].speaker_mapping, "va") = {"B"}
    /\ TokensOf(info[1].speaker_mapping, "prospect") = {"A", "C"}
    /\ info[1].next_speaker_index = 3

\* C33: nothing is sent to a Deepgram connection once finish() has been
\* called on it: after the signal handler has finalized the connection of a
\* registered session, the message loop of that session forwards no frame.
C33_NoAudioAfterFinish ==
    [][\A c \in Conns :
          finishCount[c] > 0 => dgSent'[c] = dgSent[c]]_vars

====
